---- MODULE Spec2Model ----
(***************************************************************************)
(* A model of src/MyPromise/index.js: the MyPromise state machine, its     *)
(* handler queue, the micro-task queue of the host and the chaining        *)
(* operators then / catch / finally, and the static operations resolve,    *)
(* all, allSettled and race.                                               *)
(*                                                                         *)
(* Every method of the class is an operator on a "world" record w that     *)
(* holds the heap of MyPromise instances (the fields _state, _result and   *)
(* _handlerQueue of instance p are w.state[p], w.result[p] and             *)
(* w.handlerQueue[p]), the host's micro-task queue, and history fields     *)
(* that record what was called, in which stack frame.  An action of the    *)
(* specification is one synchronous run of JavaScript: a statement of the  *)
(* user's script, or one task taken from the micro-task queue.             *)
(***************************************************************************)
EXTENDS Integers, Sequences, FiniteSets, TLC

VARIABLES state, result, handlerQueue, microQueue, origin, settleLog, ran,
          uncaught, objects, aggregates

vars == <<state, result, handlerQueue, microQueue, origin, settleLog, ran,
          uncaught, objects, aggregates>>

\* index.js:2-4
PENDING == "pending"
FULFILLED == "fulfilled"
REJECTED == "rejected"

\* The heap holds at most this many instances, in each specification.
MaxPromises == 4
MaxAdoptPromises == 4
MaxSettlePromises == 2
MaxFinallyPromises == 4
MaxResolvePromises == 4
MaxLivePromises == 3
\* The arrays given to all, allSettled and race have at most this many items.
MaxAllItems == 2
\* At most MaxSettleCalls calls of _resolve/_reject are recorded per instance;
\* the script stops calling the callbacks of an instance at that number.
MaxSettleCalls == 2

---------------------------------------------------------------------------
\* JavaScript values.  kind is what typeof and the truth test depend on.
Undefined == [kind |-> "undefined", v |-> 0]
Num(n) == [kind |-> "number", v |-> n]
ErrorObj(n) == [kind |-> "error", v |-> n]
Ref(p) == [kind |-> "promise", v |-> p]
\* The array, and the object literal, stored at place o of w.objects.
Arr(o) == [kind |-> "array", v |-> o]
Obj(o) == [kind |-> "object", v |-> o]

\* Boolean(object)
Truthy(object) ==
    CASE object.kind = "undefined" -> FALSE
      [] object.kind = "number" -> object.v # 0
      [] OTHER -> TRUE

\* typeof object
TypeOf(object) ==
    CASE object.kind = "undefined" -> "undefined"
      [] object.kind = "number" -> "number"
      [] OTHER -> "object"

\* typeof object.then (read only once object is known to be an object)
TypeOfThen(object) ==
    IF object.kind = "promise" THEN "function" ELSE "undefined"

isPromise(object) ==
    Truthy(object) /\ TypeOf(object) = "object" /\ TypeOfThen(object) = "function"

---------------------------------------------------------------------------
\* Functions the program passes around.
\*   absent      no function was passed (undefined)
\*   returns     a user continuation that returns val
\*   throws      a user continuation that throws val
\*   resolve     this._resolve.bind(this) of instance val.v
\*   reject      this._reject.bind(this) of instance val.v
\*   finallyOnfulfilled / finallyOnrejected
\*               the two arrow functions of finally; onfinally tells what the
\*               user's onfinally is: "absent", "returns" or "throws" (val)
Fn(kind, val, onfinally) == [kind |-> kind, val |-> val, onfinally |-> onfinally]
Absent == Fn("absent", Undefined, "none")
Returns(val) == Fn("returns", val, "none")
Throws(val) == Fn("throws", val, "none")
ResolveOf(p) == Fn("resolve", Ref(p), "none")
RejectOf(p) == Fn("reject", Ref(p), "none")

\* typeof f === 'function'
IsFunction(f) == f.kind # "absent"

\* Stack frames recorded while the operators run.
Frame(op, p, d) == [op |-> op, p |-> p, d |-> d]
TaskFrame == Frame("task", 0, 0)

Push(w, frame) == [w EXCEPT !.stack = Append(@, frame)]
Pop(w) == [w EXCEPT !.stack = SubSeq(@, 1, Len(@) - 1)]

---------------------------------------------------------------------------
RECURSIVE microTask(_, _)

\* The host runs callback synchronously instead of queueing it.
executeMicroQueueTaskInline(w, callback) == microTask(w, callback)

\* The host putting callback at the front of its queue.
executeMicroQueueTaskFront(w, callback) ==
    [w EXCEPT !.microQueue = <<callback>> \o @]

\* index.js:248-259.  process.nextTick, a MutationObserver and setTimeout all
\* put callback at the end of a first-in first-out queue of the host.
executeMicroQueueTask(w, callback) ==
    [w EXCEPT !.microQueue = Append(@, callback)]

\* index.js:122-145, without the body of the callback (microTask below)
_executeCurrentHandler(w, this, handler) ==
    executeMicroQueueTask(w, [this |-> this, handler |-> handler])

RECURSIVE _executeHandlersLoop(_, _)
\* index.js:113-116
_executeHandlersLoop(w, this) ==
    IF Len(w.handlerQueue[this]) = 0 THEN w
    ELSE LET w1 == _executeCurrentHandler(w, this, w.handlerQueue[this][1])
         IN _executeHandlersLoop(
                [w1 EXCEPT !.handlerQueue[this] = Tail(@)], this)

\* index.js:109-117
_executeHandlers(w, this) ==
    IF w.state[this] = PENDING THEN w ELSE _executeHandlersLoop(w, this)

\* _changeState without the test of line 71: a later call settles again.
_changeStateUnguarded(w, this, st, res) ==
    Pop(_executeHandlers(
        Push([w EXCEPT !.state[this] = st, !.result[this] = res],
             Frame("settle", this, 0)), this))

\* index.js:69-77
_changeState(w, this, st, res) ==
    IF w.state[this] # PENDING THEN w
    ELSE Pop(_executeHandlers(
             Push([w EXCEPT !.state[this] = st, !.result[this] = res],
                  Frame("settle", this, 0)), this))

\* History: of the instances a race call wrapped, the one that settled first.
LogFirst(w, this) ==
    IF w.state[this] # PENDING THEN w
    ELSE [w EXCEPT !.aggregates =
             [c \in DOMAIN @ |->
                 IF @[c].first = 0 /\ \E i \in DOMAIN @[c].wrapped : @[c].wrapped[i] = this
                 THEN [@[c] EXCEPT !.first = this]
                 ELSE @[c]]]

\* History: the calls of _resolve/_reject made on each instance, in order.
LogSettle(w, this, st, val) ==
    IF Len(w.settleLog[this]) >= MaxSettleCalls THEN LogFirst(w, this)
    ELSE [LogFirst(w, this) EXCEPT
             !.settleLog[this] = Append(@, [state |-> st, result |-> val])]

\* index.js:83-85
_resolve(w, this, value) ==
    _changeState(LogSettle(w, this, FULFILLED, value), this, FULFILLED, value)

\* index.js:91-93
_reject(w, this, reason) ==
    _changeState(LogSettle(w, this, REJECTED, reason), this, REJECTED, reason)

\* _pushHandler putting the record at the front of the queue.
_pushHandlerFront(w, this, executor, st, resolve, reject) ==
    [w EXCEPT !.handlerQueue[this] =
        <<[executor |-> executor, state |-> st, resolve |-> resolve, reject |-> reject]>>
        \o @]

\* index.js:102-104
_pushHandler(w, this, executor, st, resolve, reject) ==
    [w EXCEPT !.handlerQueue[this] = Append(@,
        [executor |-> executor, state |-> st, resolve |-> resolve, reject |-> reject])]

---------------------------------------------------------------------------
\* What a call leaves: the world, the value returned or thrown, and (history)
\* the argument lists of the calls of the user's onfinally made during it.
Returned(w, val) == [w |-> w, threw |-> FALSE, val |-> val, onfinally |-> <<>>]
Threw(w, val) == [w |-> w, threw |-> TRUE, val |-> val, onfinally |-> <<>>]

\* The executor of then without line 36: the records wait for a settlement.
thenExecutorNoRun(w, this, onfulfilled, onrejected, self) ==
    LET w1 == _pushHandler(w, this, onfulfilled, FULFILLED, self, self)
        w2 == _pushHandler(w1, this, onrejected, REJECTED, self, self)
    IN Returned(w2, Undefined)

\* index.js:33-37, the executor then gives to the constructor; resolve and
\* reject are the callbacks of the new instance self.
thenExecutor(w, this, onfulfilled, onrejected, self) ==
    LET w1 == _pushHandler(w, this, onfulfilled, FULFILLED, self, self)
        w2 == _pushHandler(w1, this, onrejected, REJECTED, self, self)
    IN Returned(_executeHandlers(w2, this), Undefined)

RECURSIVE userExecutor(_, _, _)
\* An executor written by the user: a sequence of calls of its resolve and
\* reject arguments, and possibly a throw.
userExecutor(w, self, steps) ==
    IF steps = <<>> THEN Returned(w, Undefined)
    ELSE LET s == Head(steps) IN
         CASE s.op = "resolve" -> userExecutor(_resolve(w, self, s.val), self, Tail(steps))
           [] s.op = "reject" -> userExecutor(_reject(w, self, s.val), self, Tail(steps))
           [] s.op = "throw" -> Threw(w, s.val)

RECURSIVE constructor(_, _)
RECURSIVE then(_, _, _, _)

\* The executor of the static resolve handing value to resolve as it is.
resolveExecutorNoAdopt(w, self, value) ==
    Returned(_resolve(w, self, value), Undefined)

\* index.js:153-159, the executor of the static resolve
resolveExecutor(w, self, value) ==
    IF isPromise(value)
    THEN Returned(then(w, value.v, ResolveOf(self), RejectOf(self)), Undefined)
    ELSE Returned(_resolve(w, self, value), Undefined)

\* index.js:152-160.  The instance returned is number Len(w.state) + 1.
resolve(w, value) == constructor(w, [kind |-> "resolve", value |-> value])

\* The two arrow functions all gives to then (index.js:190-200): they close
\* over resolve and reject of the instance self that all returns, over the
\* variables of call env of all, and over index.
AllFn(kind, self, env, index) ==
    [kind |-> kind, val |-> Ref(self), onfinally |-> "none",
     env |-> env, index |-> index]

\* History: MyPromise.resolve(item) of call env is about to make instance wrapper.
LogWrapped(w, env, wrapper) ==
    [w EXCEPT !.aggregates[env].wrapped = Append(@, wrapper)]

RECURSIVE allForEach(_, _, _, _, _)
\* index.js:189-201, from the item at place index (1 is JavaScript's 0)
allForEach(w, self, env, promiseQueue, index) ==
    IF index > Len(promiseQueue) THEN w
    ELSE LET wrapper == Len(w.state) + 1
             w1 == resolve(LogWrapped(w, env, wrapper), promiseQueue[index])
             w2 == then(w1, wrapper,
                        AllFn("allOnfulfilled", self, env, index),
                        AllFn("allOnrejected", self, env, index))
         IN allForEach(w2, self, env, promiseQueue, index + 1)

\* index.js:184-202, the executor of all
allExecutor(w, self, env, promiseQueue) ==
    IF w.aggregates[env].length = 0
    THEN Returned(_resolve(w, self, Undefined), Undefined)
    ELSE Returned(allForEach(w, self, env, promiseQueue, 1), Undefined)

\* The variables a call of all, allSettled or race declares, and (history)
\* what it was called with, the instance it returns, the instances
\* MyPromise.resolve made for its items and the first of them to settle.
Aggregate(kind, self, promiseQueue, values) ==
    [kind |-> kind, self |-> self, items |-> promiseQueue,
     length |-> Len(promiseQueue), fulfilledLength |-> 0, values |-> values,
     wrapped |-> <<>>, first |-> 0]

\* const values = [], index.js:183
NewArray == [kind |-> "array", status |-> "", key |-> "", items |-> <<>>]

\* index.js:178-203.  The instance returned is number Len(w.state) + 1.
all(w, promiseQueue) ==
    LET env == Len(w.aggregates) + 1
        values == Len(w.objects) + 1
        self == Len(w.state) + 1
        w1 == [w EXCEPT !.objects = Append(@, NewArray),
                        !.aggregates = Append(@, Aggregate("all", self, promiseQueue, values))]
    IN constructor(w1, [kind |-> "all", env |-> env, promiseQueue |-> promiseQueue])

RECURSIVE raceForEachResolvesOnly(_, _, _, _, _)
\* The loop of race attaching resolve for both outcomes.
raceForEachResolvesOnly(w, self, env, promiseQueue, index) ==
    IF index > Len(promiseQueue) THEN w
    ELSE LET wrapper == Len(w.state) + 1
             w1 == resolve(LogWrapped(w, env, wrapper), promiseQueue[index])
             w2 == then(w1, wrapper, ResolveOf(self), ResolveOf(self))
         IN raceForEachResolvesOnly(w2, self, env, promiseQueue, index + 1)

RECURSIVE raceForEach(_, _, _, _, _)
\* index.js:228-230
raceForEach(w, self, env, promiseQueue, index) ==
    IF index > Len(promiseQueue) THEN w
    ELSE LET wrapper == Len(w.state) + 1
             w1 == resolve(LogWrapped(w, env, wrapper), promiseQueue[index])
             w2 == then(w1, wrapper, ResolveOf(self), RejectOf(self))
         IN raceForEach(w2, self, env, promiseQueue, index + 1)

\* The executor of race resolving at once when there is no item, as the
\* executor of all does.
raceExecutorResolvesEmpty(w, self, env, promiseQueue) ==
    IF Len(promiseQueue) = 0
    THEN Returned(_resolve(w, self, Undefined), Undefined)
    ELSE Returned(raceForEach(w, self, env, promiseQueue, 1), Undefined)

\* index.js:227-231, the executor of race
raceExecutor(w, self, env, promiseQueue) ==
    Returned(raceForEach(w, self, env, promiseQueue, 1), Undefined)

\* index.js:226-232.  The instance returned is number Len(w.state) + 1.
race(w, promiseQueue) ==
    LET env == Len(w.aggregates) + 1
        self == Len(w.state) + 1
        w1 == [w EXCEPT !.aggregates = Append(@, Aggregate("race", self, promiseQueue, 0))]
    IN constructor(w1, [kind |-> "race", env |-> env, promiseQueue |-> promiseQueue])

\* The two arrow functions allSettled gives to then, index.js:212-216
SettledOnfulfilled == Fn("settledOnfulfilled", Undefined, "none")
SettledOnrejected == Fn("settledOnrejected", Undefined, "none")

RECURSIVE allSettledMap(_, _, _, _)
\* index.js:211-217: the world after promiseQueue.map from place index on, and
\* the array it returns, which begins with newQueue.
allSettledMap(w, promiseQueue, index, newQueue) ==
    IF index > Len(promiseQueue) THEN [w |-> w, newQueue |-> newQueue]
    ELSE LET wrapper == Len(w.state) + 1
             w1 == resolve(w, promiseQueue[index])
             mapped == Len(w1.state) + 1
             w2 == then(w1, wrapper, SettledOnfulfilled, SettledOnrejected)
         IN allSettledMap(w2, promiseQueue, index + 1, Append(newQueue, Ref(mapped)))

\* index.js:210-219.  The instance returned is the one all returns; the
\* history keeps what allSettled itself was called with.
allSettled(w, promiseQueue) ==
    LET m == allSettledMap(w, promiseQueue, 1, <<>>)
        self == Len(m.w.state) + 1
        w1 == all(m.w, m.newQueue)
    IN [w1 EXCEPT !.aggregates =
           Append(@, Aggregate("allSettled", self, promiseQueue, 0))]

\* executor(this._resolve.bind(this), this._reject.bind(this)), index.js:20
RunExecutor(w, self, executor) ==
    CASE executor.kind = "then" ->
           thenExecutor(w, executor.this, executor.onfulfilled, executor.onrejected, self)
      [] executor.kind = "resolve" -> resolveExecutor(w, self, executor.value)
      [] executor.kind = "all" ->
           allExecutor(w, self, executor.env, executor.promiseQueue)
      [] executor.kind = "race" ->
           raceExecutor(w, self, executor.env, executor.promiseQueue)
      [] OTHER -> userExecutor(w, self, executor.steps)

\* The fields of a new instance, index.js:13-17, and how it came to be.
Allocate(w, executor) ==
    [w EXCEPT !.state = Append(@, PENDING),
              !.result = Append(@, Undefined),
              !.handlerQueue = Append(@, <<>>),
              !.settleLog = Append(@, <<>>),
              !.origin = Append(@,
                  IF executor.kind = "then"
                  THEN [kind |-> "then", src |-> executor.this,
                        onfulfilled |-> executor.onfulfilled,
                        onrejected |-> executor.onrejected,
                        srcState |-> w.state[executor.this], steps |-> <<>>]
                  ELSE [kind |-> IF executor.kind = "user" THEN "create"
                                 ELSE executor.kind,
                        src |-> 0,
                        onfulfilled |-> Absent, onrejected |-> Absent,
                        srcState |-> PENDING,
                        steps |-> CASE executor.kind = "user" -> executor.steps
                                    [] executor.kind = "resolve" ->
                                         <<[op |-> "resolve", val |-> executor.value]>>
                                    [] OTHER -> <<>>])]

\* The constructor without try/catch: what the executor throws reaches the caller.
constructorNoCatch(w, executor) ==
    LET self == Len(w.state) + 1
        r == RunExecutor(Push(Allocate(w, executor), Frame("new", self, 0)), self, executor)
    IN IF r.threw
       THEN Pop([r.w EXCEPT !.uncaught = Append(@, r.val)])
       ELSE Pop(r.w)

\* The constructor whose catch block writes the error into the instance
\* itself instead of calling _reject.
constructorCatchOverrides(w, executor) ==
    LET self == Len(w.state) + 1
        r == RunExecutor(Push(Allocate(w, executor), Frame("new", self, 0)), self, executor)
    IN IF r.threw
       THEN Pop([r.w EXCEPT !.state[self] = REJECTED, !.result[self] = r.val])
       ELSE Pop(r.w)

\* index.js:11-24.  The new instance is number Len(w.state) + 1.
constructor(w, executor) ==
    LET self == Len(w.state) + 1
        r == RunExecutor(Push(Allocate(w, executor), Frame("new", self, 0)), self, executor)
    IN IF r.threw
       THEN Pop(_reject(r.w, self, r.val))
       ELSE Pop(r.w)

\* index.js:32-38.  The instance returned is number Len(w.state) + 1.
then(w, this, onfulfilled, onrejected) ==
    LET d == Len(w.state) + 1
    IN Pop(constructor(Push(w, Frame("then", this, d)),
               [kind |-> "then", this |-> this,
                onfulfilled |-> onfulfilled, onrejected |-> onrejected]))

\* index.js:45-47
catch(w, this, onrejected) == then(w, this, Absent, onrejected)

\* index.js:54-62.  The two arrow functions close over onfinally.
finally(w, this, onfinally) ==
    then(w, this,
         Fn("finallyOnfulfilled", onfinally.val, onfinally.kind),
         Fn("finallyOnrejected", onfinally.val, onfinally.kind))

\* A call of a function written by the user.
CallUser(w, f, args) ==
    IF f.kind = "throws" THEN Threw(w, f.val) ELSE Returned(w, f.val)

\* The first argument of a call, undefined when there is none.
Arg1(args) == IF args = <<>> THEN Undefined ELSE args[1]

\* typeof onfinally === 'function' && onfinally(), as seen by the arrow
\* functions of finally: the call made with the argument list args.
CallOnfinally(w, f, args) ==
    IF f.onfinally = "absent" THEN Returned(w, Undefined)
    ELSE [CallUser(w, Fn(f.onfinally, f.val, "none"), args)
             EXCEPT !.onfinally = <<args>>]

\* The first arrow function of finally swallowing what onfinally throws.
finallyOnfulfilledSwallow(w, f, value) ==
    LET r == CallOnfinally(w, f, <<>>)
    IN [r EXCEPT !.threw = FALSE, !.val = value]

\* index.js:55-58
finallyOnfulfilled(w, f, value) ==
    LET r == CallOnfinally(w, f, <<>>)
    IN IF r.threw THEN r ELSE [r EXCEPT !.val = value]

\* index.js:58-61
finallyOnrejected(w, f, reason) ==
    LET r == CallOnfinally(w, f, <<>>)
    IN IF r.threw THEN r ELSE [r EXCEPT !.threw = TRUE, !.val = reason]

\* values[index] = value on a JavaScript array: the places skipped are holes.
Hole == [kind |-> "hole", v |-> 0]
ArraySet(items, index, value) ==
    [i \in 1 .. (IF index > Len(items) THEN index ELSE Len(items)) |->
        IF i = index THEN value
        ELSE IF i <= Len(items) THEN items[i] ELSE Hole]

\* The first arrow function of all pushing the value instead of storing it
\* at index.
allOnfulfilledPush(w, f, value) ==
    LET a == w.aggregates[f.env]
        n == a.fulfilledLength + 1
        w1 == [w EXCEPT !.aggregates[f.env].fulfilledLength = n,
                        !.objects[a.values].items = Append(@, value)]
    IN Returned(IF n = a.length THEN _resolve(w1, f.val.v, Arr(a.values)) ELSE w1,
                Undefined)

\* index.js:190-197
allOnfulfilled(w, f, value) ==
    LET a == w.aggregates[f.env]
        n == a.fulfilledLength + 1
        w1 == [w EXCEPT !.aggregates[f.env].fulfilledLength = n,
                        !.objects[a.values].items = ArraySet(@, f.index, value)]
    IN Returned(IF n = a.length THEN _resolve(w1, f.val.v, Arr(a.values)) ELSE w1,
                Undefined)

\* The second arrow function of all ignoring the rejection.
allOnrejectedIgnores(w, f, reason) == Returned(w, Undefined)

\* index.js:197-200
allOnrejected(w, f, reason) == Returned(_reject(w, f.val.v, reason), Undefined)

\* index.js:212-214: return { status: FULFILLED, value }
settledOnfulfilled(w, f, value) ==
    Returned([w EXCEPT !.objects = Append(@,
                 [kind |-> "descriptor", status |-> FULFILLED, key |-> "value",
                  items |-> <<value>>])],
             Obj(Len(w.objects) + 1))

\* index.js:214-216: return { status: REJECTED, reason }
settledOnrejected(w, f, reason) ==
    Returned([w EXCEPT !.objects = Append(@,
                 [kind |-> "descriptor", status |-> REJECTED, key |-> "reason",
                  items |-> <<reason>>])],
             Obj(Len(w.objects) + 1))

\* f(...args) for every function value of the model.
Call(w, f, args) ==
    CASE f.kind = "resolve" -> Returned(_resolve(w, f.val.v, Arg1(args)), Undefined)
      [] f.kind = "reject" -> Returned(_reject(w, f.val.v, Arg1(args)), Undefined)
      [] f.kind = "allOnfulfilled" -> allOnfulfilled(w, f, Arg1(args))
      [] f.kind = "allOnrejected" -> allOnrejected(w, f, Arg1(args))
      [] f.kind = "settledOnfulfilled" -> settledOnfulfilled(w, f, Arg1(args))
      [] f.kind = "settledOnrejected" -> settledOnrejected(w, f, Arg1(args))
      [] f.kind = "finallyOnfulfilled" -> finallyOnfulfilled(w, f, Arg1(args))
      [] f.kind = "finallyOnrejected" -> finallyOnrejected(w, f, Arg1(args))
      [] OTHER -> CallUser(w, f, args)

\* History: the handler records that passed the test of line 126, in the order
\* in which they ran, each with the stack it ran on.
LogRan(w, this, handler) ==
    [w EXCEPT !.ran = Append(@, [owner |-> this, down |-> handler.resolve,
                                 state |-> handler.state,
                                 executor |-> handler.executor,
                                 stack |-> w.stack, onfinally |-> <<>>])]

\* index.js:134-143 without try/catch: what the continuation throws leaves the
\* task and the downstream instance stays as it was.
RunHandlerNoCatch(w, this, handler, k) ==
    LET r == Call(w, handler.executor, <<w.result[this]>>)
        w1 == [r.w EXCEPT !.ran[k].onfinally = r.onfinally]
    IN IF r.threw THEN [w1 EXCEPT !.uncaught = Append(@, r.val)]
       ELSE IF isPromise(r.val)
            THEN then(w1, r.val.v, ResolveOf(handler.resolve), RejectOf(handler.reject))
            ELSE _resolve(w1, handler.resolve, r.val)

\* index.js:134-143 without the test of line 136: what the continuation
\* returns is handed to resolve as it is.
RunHandlerNoAdopt(w, this, handler, k) ==
    LET r == Call(w, handler.executor, <<w.result[this]>>)
        w1 == [r.w EXCEPT !.ran[k].onfinally = r.onfinally]
    IN IF r.threw THEN _reject(w1, handler.reject, r.val)
       ELSE _resolve(w1, handler.resolve, r.val)

\* index.js:134-143; k is the place of this run in the history ran.
RunHandler(w, this, handler, k) ==
    LET r == Call(w, handler.executor, <<w.result[this]>>)
        w1 == [r.w EXCEPT !.ran[k].onfinally = r.onfinally]
    IN IF r.threw THEN _reject(w1, handler.reject, r.val)
       ELSE IF isPromise(r.val)
            THEN then(w1, r.val.v, ResolveOf(handler.resolve), RejectOf(handler.reject))
            ELSE _resolve(w1, handler.resolve, r.val)

\* Lines 129-133 always calling resolve.
ForwardResolves(w, this, handler) ==
    _resolve(w, handler.resolve, w.result[this])

\* index.js:129-133
Forward(w, this, handler) ==
    IF w.state[this] = FULFILLED
    THEN _resolve(w, handler.resolve, w.result[this])
    ELSE _reject(w, handler.reject, w.result[this])

\* index.js:124-144, the callback _executeCurrentHandler hands to the host.
microTask(w, callback) ==
    LET this == callback.this
        handler == callback.handler
    IN IF handler.state # w.state[this] THEN w
       ELSE LET w1 == LogRan(w, this, handler)
            IN IF ~IsFunction(handler.executor)
               THEN Forward(w1, this, handler)
               ELSE RunHandler(w1, this, handler, Len(w1.ran))

---------------------------------------------------------------------------
\* The state of the program as a world, on an empty stack.
World ==
    [state |-> state, result |-> result, handlerQueue |-> handlerQueue,
     microQueue |-> microQueue, origin |-> origin, settleLog |-> settleLog,
     ran |-> ran, uncaught |-> uncaught, objects |-> objects,
     aggregates |-> aggregates, stack |-> <<>>]

\* The world w, reached on an empty stack with at most max instances, becomes
\* the next state.
Commit(w, max) ==
    /\ w.stack = <<>>
    /\ Len(w.state) <= max
    /\ state' = w.state
    /\ result' = w.result
    /\ handlerQueue' = w.handlerQueue
    /\ microQueue' = w.microQueue
    /\ origin' = w.origin
    /\ settleLog' = w.settleLog
    /\ ran' = w.ran
    /\ uncaught' = w.uncaught
    /\ objects' = w.objects
    /\ aggregates' = w.aggregates

Promises == 1 .. Len(state)
Refs == {Ref(p) : p \in Promises}

\* The instances the script made with new MyPromise: it holds their callbacks.
Created == {p \in Promises : origin[p].kind = "create"}

Step(op, val) == [op |-> op, val |-> val]

Init ==
    /\ state = <<>>
    /\ result = <<>>
    /\ handlerQueue = <<>>
    /\ microQueue = <<>>
    /\ origin = <<>>
    /\ settleLog = <<>>
    /\ ran = <<>>
    /\ uncaught = <<>>
    /\ objects = <<>>
    /\ aggregates = <<>>

\* new MyPromise(executor), the executor's body one of bodies
CreateWith(bodies, max) ==
    \E steps \in bodies :
        Commit(constructor(World, [kind |-> "user", steps |-> steps]), max)

\* A later call of the resolve callback an executor was given, when fewer
\* than calls calls of the instance's callbacks were made.
ResolveWith(values, calls, max) ==
    \E p \in Created, value \in values :
        /\ Len(settleLog[p]) < calls
        /\ Commit(_resolve(World, p, value), max)

\* A later call of the reject callback an executor was given.
RejectWith(reasons, calls, max) ==
    \E p \in Created, reason \in reasons :
        /\ Len(settleLog[p]) < calls
        /\ Commit(_reject(World, p, reason), max)

\* p.then(onfulfilled, onrejected)
ThenWith(pairs, max) ==
    \E p \in Promises, pair \in pairs :
        Commit(then(World, p, pair[1], pair[2]), max)

\* p.catch(onrejected)
CatchWith(fns, max) ==
    \E p \in Promises, onrejected \in fns :
        Commit(catch(World, p, onrejected), max)

\* p.finally(onfinally)
FinallyWith(fns, max) ==
    \E p \in Promises, onfinally \in fns :
        Commit(finally(World, p, onfinally), max)

\* MyPromise.resolve(value), value one of values
StaticResolveWith(values, max) ==
    \E value \in values : Commit(resolve(World, value), max)

\* The arrays of at most n items, each one of S.
Arrays(S, n) == UNION {[1 .. k -> S] : k \in 0 .. n}

\* MyPromise.all(promiseQueue), promiseQueue one of inputs
AllWith(inputs, max) ==
    \E promiseQueue \in inputs : Commit(all(World, promiseQueue), max)

\* MyPromise.allSettled(promiseQueue)
AllSettledWith(inputs, max) ==
    \E promiseQueue \in inputs : Commit(allSettled(World, promiseQueue), max)

\* MyPromise.race(promiseQueue)
RaceWith(inputs, max) ==
    \E promiseQueue \in inputs : Commit(race(World, promiseQueue), max)

\* The host takes the first task of its queue and runs it.
RunTaskWith(max) ==
    /\ microQueue # <<>>
    /\ Commit(Pop(microTask(
           Push([World EXCEPT !.microQueue = Tail(@)], TaskFrame),
           Head(microQueue))), max)

---------------------------------------------------------------------------
\* Chaining: sources made pending and settled later by one call; then and
\* catch with continuations that are absent, return a plain value or throw.
ChainPairs == {<<Absent, Absent>>, <<Returns(Num(2)), Throws(ErrorObj(2))>>}

Create == CreateWith({<<>>}, MaxPromises)
Resolve == ResolveWith({Num(1)}, 1, MaxPromises)
Reject == RejectWith({ErrorObj(1)}, 1, MaxPromises)
Then == ThenWith(ChainPairs, MaxPromises)
Catch == CatchWith({Returns(Num(2))}, MaxPromises)
RunTask == RunTaskWith(MaxPromises)

Next == Create \/ Resolve \/ Reject \/ Then \/ Catch \/ RunTask

Spec == Init /\ [][Next]_vars

---------------------------------------------------------------------------
\* Adoption: continuations that return an instance or a plain value.
AdoptPairs == {<<Returns(v), Returns(v)>> : v \in Refs \cup {Num(2)}}

AdoptCreate == CreateWith({<<>>}, MaxAdoptPromises)
AdoptResolve == ResolveWith({Num(1)}, 1, MaxAdoptPromises)
AdoptReject == RejectWith({ErrorObj(1)}, 1, MaxAdoptPromises)
AdoptThen == ThenWith(AdoptPairs, MaxAdoptPromises)
AdoptRunTask == RunTaskWith(MaxAdoptPromises)

NextAdopt ==
    AdoptCreate \/ AdoptResolve \/ AdoptReject \/ AdoptThen \/ AdoptRunTask

SpecAdopt == Init /\ [][NextAdopt]_vars

---------------------------------------------------------------------------
\* Settlement: executors that call their callbacks and throw, and later calls
\* of the callbacks.
SettleBodies ==
    {<<>>, <<Step("throw", ErrorObj(1))>>,
     <<Step("resolve", Num(1)), Step("throw", ErrorObj(1))>>,
     <<Step("reject", ErrorObj(1)), Step("throw", ErrorObj(2))>>}
    \cup {<<Step("resolve", v)>> : v \in {Num(1)} \cup Refs}

SettleCreate == CreateWith(SettleBodies, MaxSettlePromises)
SettleResolve == ResolveWith({Num(2)}, MaxSettleCalls, MaxSettlePromises)
SettleReject == RejectWith({ErrorObj(2)}, MaxSettleCalls, MaxSettlePromises)
SettleThen == ThenWith({<<Absent, Absent>>}, MaxSettlePromises)
SettleRunTask == RunTaskWith(MaxSettlePromises)

NextSettle ==
    SettleCreate \/ SettleResolve \/ SettleReject \/ SettleThen \/ SettleRunTask

SpecSettle == Init /\ [][NextSettle]_vars

---------------------------------------------------------------------------
\* finally: sources fulfilled with a plain value or with an instance, or
\* rejected, before or after finally is called.
FinallyBodies == {<<>>} \cup {<<Step("resolve", v)>> : v \in Refs}

FinallyCreate == CreateWith(FinallyBodies, MaxFinallyPromises)
FinallyResolve == ResolveWith({Num(1)}, 1, MaxFinallyPromises)
FinallyReject == RejectWith({ErrorObj(1)}, 1, MaxFinallyPromises)
Finally == FinallyWith({Returns(Num(2)), Throws(ErrorObj(2))}, MaxFinallyPromises)
FinallyRunTask == RunTaskWith(MaxFinallyPromises)

NextFinally ==
    FinallyCreate \/ FinallyResolve \/ FinallyReject \/ Finally \/ FinallyRunTask

SpecFinally == Init /\ [][NextFinally]_vars

---------------------------------------------------------------------------
\* The static resolve: on plain values, on instances the caller made and
\* settles before or after, and on instances resolve itself returned.
ResolveCreate == CreateWith({<<>>}, MaxResolvePromises)
ResolveResolve == ResolveWith({Num(2)}, 1, MaxResolvePromises)
ResolveReject == RejectWith({ErrorObj(2)}, 1, MaxResolvePromises)
StaticResolve == StaticResolveWith({Num(1), ErrorObj(1)} \cup Refs, MaxResolvePromises)
ResolveRunTask == RunTaskWith(MaxResolvePromises)

NextResolve ==
    ResolveCreate \/ ResolveResolve \/ ResolveReject \/ StaticResolve \/ ResolveRunTask

SpecResolve == Init /\ [][NextResolve]_vars

---------------------------------------------------------------------------
\* all: the script makes at most MaxAllItems instances, calls all once on an
\* array of them and of a number, and settles them before or after the call.
\* An item that is an instance costs three more instances (the one
\* MyPromise.resolve returns and the two the then calls return), and all
\* returns one.
AllHeap == 4 * MaxAllItems + 1

AllCreate == CreateWith({<<>>}, MaxAllItems)
AllResolve == ResolveWith({Num(1), Num(2)}, 1, AllHeap)
AllReject == RejectWith({ErrorObj(1), ErrorObj(2)}, 1, AllHeap)
All ==
    /\ aggregates = <<>>
    /\ AllWith(Arrays(Refs \cup {Num(9)}, MaxAllItems), AllHeap)
AllRunTask == RunTaskWith(AllHeap)

NextAll == AllCreate \/ AllResolve \/ AllReject \/ All \/ AllRunTask

SpecAll == Init /\ [][NextAll]_vars

---------------------------------------------------------------------------

\* allSettled: as for all.  An item that is an instance costs three more
\* instances in allSettled (lines 212-216) and its mapped instance three more
\* in all; a number costs one less.
AllSettledHeap == 7 * MaxAllItems + 1

SettledCreate == CreateWith({<<>>}, MaxAllItems)
SettledResolve == ResolveWith({Num(1)}, 1, AllSettledHeap)
SettledReject == RejectWith({ErrorObj(1)}, 1, AllSettledHeap)
AllSettled ==
    /\ aggregates = <<>>
    /\ AllSettledWith(Arrays(Refs \cup {Num(9)}, MaxAllItems), AllSettledHeap)
SettledRunTask == RunTaskWith(AllSettledHeap)

NextAllSettled ==
    SettledCreate \/ SettledResolve \/ SettledReject \/ AllSettled \/ SettledRunTask

SpecAllSettled == Init /\ [][NextAllSettled]_vars

---------------------------------------------------------------------------

\* race: as for all.  An item that is an instance costs three more instances,
\* and race returns one.
RaceHeap == 4 * MaxAllItems + 1

RaceCreate == CreateWith({<<>>}, MaxAllItems)
RaceResolve == ResolveWith({Num(1), Num(2)}, 1, RaceHeap)
RaceReject == RejectWith({ErrorObj(1)}, 1, RaceHeap)
Race ==
    /\ aggregates = <<>>
    /\ RaceWith(Arrays(Refs \cup {Num(9)}, MaxAllItems), RaceHeap)
RaceRunTask == RunTaskWith(RaceHeap)

NextRace == RaceCreate \/ RaceResolve \/ RaceReject \/ Race \/ RaceRunTask

SpecRace == Init /\ [][NextRace]_vars

---------------------------------------------------------------------------

\* Progress: the chaining alphabet under a host that runs every task it was
\* given: process.nextTick, a MutationObserver and setTimeout (lines 248-259)
\* all run their callback once the running script has returned.
LiveCreate == CreateWith({<<>>}, MaxLivePromises)
LiveResolve == ResolveWith({Num(1)}, 1, MaxLivePromises)
LiveReject == RejectWith({ErrorObj(1)}, 1, MaxLivePromises)
LiveThen == ThenWith(ChainPairs, MaxLivePromises)
LiveRunTask == RunTaskWith(MaxLivePromises)

NextLive == LiveCreate \/ LiveResolve \/ LiveReject \/ LiveThen \/ LiveRunTask

SpecLive == Init /\ [][NextLive]_vars /\ WF_vars(LiveRunTask)

---------------------------------------------------------------------------

\* What the claims speak of.

Settled(p) == state[p] # PENDING

\* The instances then returned for source p, in the order of the calls.
Ids == [i \in 1 .. Len(state) |-> i]
IsThenOf(d, p) == origin[d].kind = "then" /\ origin[d].src = p
ThensOf(p) == SelectSeq(Ids, LAMBDA d : IsThenOf(d, p))

\* The handler records of p that ran, in the order in which they ran.
RanOf(p) == SelectSeq(ran, LAMBDA e : e.owner = p)

\* A record of p waits in p's queue or in the host's queue.
Waiting(p) ==
    \/ handlerQueue[p] # <<>>
    \/ \E i \in DOMAIN microQueue : microQueue[i].this = p

\* The continuation of d = p.then(...) that matches the state p settled in.
Matching(d) ==
    IF state[origin[d].src] = FULFILLED
    THEN origin[d].onfulfilled ELSE origin[d].onrejected

IsFinallyFn(f) == f.kind \in {"finallyOnfulfilled", "finallyOnrejected"}

\* C1: of the calls of _resolve and _reject made on one instance only the
\* first has an effect: an instance nobody called is pending with no result,
\* and any other has the state and the result the first call gave it, however
\* many calls followed.
C1_FirstSettlementWins ==
    \A p \in Promises :
        IF settleLog[p] = <<>>
        THEN state[p] = PENDING /\ result[p] = Undefined
        ELSE /\ state[p] = settleLog[p][1].state
             /\ result[p] = settleLog[p][1].result

\* An instance was settled and then called again with another outcome.
C1_Witness ==
    \E p \in Promises :
        /\ Len(settleLog[p]) >= 2
        /\ settleLog[p][2].state # settleLog[p][1].state
        /\ settleLog[p][2].result # settleLog[p][1].result

\* C2: no handler record runs inside the call that settled its owner nor
\* inside the then call that attached it: each runs on the stack of a task
\* the host took from its queue, with no frame of that settling call, of that
\* then call or of the constructor of its downstream instance below it.
C2_HandlersRunDeferred ==
    \A i \in DOMAIN ran :
        LET e == ran[i] IN
        /\ e.stack # <<>>
        /\ e.stack[1] = TaskFrame
        /\ \A j \in DOMAIN e.stack :
               /\ e.stack[j] # Frame("settle", e.owner, 0)
               /\ e.stack[j] # Frame("then", e.owner, e.down)
               /\ e.stack[j] # Frame("new", e.down, 0)

\* A record attached while its owner was pending ran, and so did one attached
\* after its owner had settled.
C2_Witness ==
    \E i, j \in DOMAIN ran :
        /\ origin[ran[i].down].srcState = PENDING
        /\ origin[ran[j].down].srcState # PENDING
        /\ IsFunction(ran[i].executor)
        /\ IsFunction(ran[j].executor)

\* C3: of the pairs attached to an instance p, before or after it settled,
\* the records that ran are those whose state is the state p settled in, one
\* per pair, each once, in the order of the then calls; none runs while p is
\* pending; and once no record of p waits any more, one record of every pair
\* has run.
C3_EachPairRunsOnceInOrder ==
    \A p \in Promises :
        LET r == RanOf(p)
            t == ThensOf(p)
        IN /\ ~Settled(p) => r = <<>>
           /\ \A i \in DOMAIN r : r[i].state = state[p]
           /\ Len(r) <= Len(t)
           /\ \A i \in DOMAIN r : i <= Len(t) => r[i].down = t[i]
           /\ (Settled(p) /\ ~Waiting(p)) => Len(r) = Len(t)

\* An instance with a pair attached before it settled and a pair attached
\* after, all of whose records have run.
C3_Witness ==
    \E p \in Promises :
        /\ Settled(p) /\ ~Waiting(p)
        /\ Len(RanOf(p)) = Len(ThensOf(p))
        /\ \E d1, d2 \in Promises :
               /\ IsThenOf(d1, p) /\ origin[d1].srcState = PENDING
               /\ IsThenOf(d2, p) /\ origin[d2].srcState # PENDING

\* C4: no instance is fulfilled with a result that is itself promise-like.
C4_NeverFulfilledWithPromise ==
    \A p \in Promises : state[p] = FULFILLED => ~isPromise(result[p])

\* C5: an instance whose executor throws before calling resolve or reject is
\* rejected with what was thrown, and nothing reaches the caller of new.
C5_ThrowingExecutorRejects ==
    /\ uncaught = <<>>
    /\ \A p \in Promises :
           (origin[p].kind = "create" /\ origin[p].steps # <<>>
               /\ origin[p].steps[1].op = "throw")
           => (state[p] = REJECTED /\ result[p] = origin[p].steps[1].val)

\* An instance was made with an executor that throws at once, and was later
\* called through the callbacks the executor received.
C5_Witness ==
    \E p \in Promises :
        /\ origin[p].kind = "create"
        /\ origin[p].steps = <<Step("throw", ErrorObj(1))>>
        /\ Len(settleLog[p]) >= 2

\* C6: when a continuation throws, the instance then returned is rejected
\* with what was thrown, and nothing is thrown out of the task, of then or of
\* the settling call.
C6_ThrowingContinuationRejects ==
    /\ uncaught = <<>>
    /\ \A i \in DOMAIN ran :
           ran[i].executor.kind = "throws"
           => /\ state[ran[i].down] = REJECTED
              /\ result[ran[i].down] = ran[i].executor.val

\* A continuation that throws has run.
C6_Witness ==
    \E i \in DOMAIN ran :
        /\ ran[i].executor.kind = "throws"
        /\ Settled(ran[i].owner)

\* C7: when the continuation that ran returned an instance q, the instance d
\* then returned is pending as long as q is, has q's state and result once it
\* is settled, and is settled once q is and the host's queue is empty; when
\* the continuation returned a plain value, d is fulfilled with that value.
C7_DownstreamAdoptsReturnedPromise ==
    \A i \in DOMAIN ran :
        LET e == ran[i]
            d == e.down
        IN e.executor.kind = "returns" =>
           IF isPromise(e.executor.val)
           THEN LET q == e.executor.val.v IN
                /\ ~Settled(q) => ~Settled(d)
                /\ Settled(d) => (state[d] = state[q] /\ result[d] = result[q])
                /\ (Settled(q) /\ microQueue = <<>>) => Settled(d)
           ELSE state[d] = FULFILLED /\ result[d] = e.executor.val

\* A continuation of a fulfilled source returned another instance, and the
\* downstream instance is rejected as that instance is.
C7_Witness ==
    \E i \in DOMAIN ran :
        LET e == ran[i] IN
        /\ e.executor.kind = "returns"
        /\ isPromise(e.executor.val)
        /\ e.executor.val.v # e.owner
        /\ state[e.owner] = FULFILLED
        /\ state[e.down] = REJECTED
        /\ result[e.down] = result[e.executor.val.v]

\* C8: when the continuation for the state the source settled in is absent,
\* the instance then returned never has another state or result than the
\* source, and has them as soon as no record of the source waits any more.
C8_AbsentContinuationForwards ==
    \A d \in Promises :
        (origin[d].kind = "then" /\ Settled(origin[d].src)
            /\ ~IsFunction(Matching(d)))
        => LET p == origin[d].src IN
           /\ Settled(d) => (state[d] = state[p] /\ result[d] = result[p])
           /\ ~Waiting(p) => Settled(d)

\* catch on a fulfilled source gave a fulfilled instance, and then() on a
\* rejected source gave a rejected one.
C8_Witness ==
    \E d1, d2 \in Promises :
        /\ origin[d1].kind = "then" /\ origin[d2].kind = "then"
        /\ ~IsFunction(origin[d1].onfulfilled) /\ IsFunction(origin[d1].onrejected)
        /\ state[origin[d1].src] = FULFILLED /\ state[d1] = FULFILLED
        /\ ~IsFunction(origin[d2].onrejected)
        /\ state[origin[d2].src] = REJECTED /\ state[d2] = REJECTED

\* C9: when the source of finally(onfinally) settled and onfinally returns,
\* onfinally was called once, with no argument, and the instance finally
\* returned, once settled, has the state and the result of the source.
C9_FinallyKeepsOutcome ==
    \A i \in DOMAIN ran :
        LET e == ran[i] IN
        (IsFinallyFn(e.executor) /\ e.executor.onfinally = "returns")
        => /\ e.onfinally = << <<>> >>
           /\ Settled(e.down) =>
                  /\ state[e.down] = state[e.owner]
                  /\ result[e.down] = result[e.owner]

\* C10: when onfinally throws, it was called once with no argument and the
\* instance finally returned is rejected with what onfinally threw, whatever
\* the value or the reason of the source.
C10_ThrowingOnfinallyRejects ==
    \A i \in DOMAIN ran :
        LET e == ran[i] IN
        (IsFinallyFn(e.executor) /\ e.executor.onfinally = "throws")
        => /\ e.onfinally = << <<>> >>
           /\ state[e.down] = REJECTED
           /\ result[e.down] = e.executor.val

\* onfinally threw for a fulfilled source and for a rejected one, whose value
\* and reason are not what it threw.
C10_Witness ==
    \E i, j \in DOMAIN ran :
        /\ IsFinallyFn(ran[i].executor) /\ ran[i].executor.onfinally = "throws"
        /\ IsFinallyFn(ran[j].executor) /\ ran[j].executor.onfinally = "throws"
        /\ state[ran[i].owner] = FULFILLED
        /\ state[ran[j].owner] = REJECTED
        /\ result[ran[i].owner] # result[ran[i].down]
        /\ result[ran[j].owner] # result[ran[j].down]

---------------------------------------------------------------------------
\* The executors that call one of their callbacks and then throw.
SettlesThenThrows(p) ==
    /\ origin[p].kind = "create"
    /\ Len(origin[p].steps) = 2
    /\ origin[p].steps[1].op \in {"resolve", "reject"}
    /\ origin[p].steps[2].op = "throw"

\* C20: an instance whose executor called resolve(v) or reject(r) and then
\* threw keeps the outcome of that call, in the state and in the result,
\* whatever is called on it later; the error thrown replaces nothing and
\* reaches no caller of the constructor.
C20_ThrowAfterSettleKeepsOutcome ==
    /\ uncaught = <<>>
    /\ \A p \in Promises :
           SettlesThenThrows(p) =>
               /\ state[p] = (IF origin[p].steps[1].op = "resolve"
                              THEN FULFILLED ELSE REJECTED)
               /\ result[p] = origin[p].steps[1].val

\* One executor resolved and threw, another rejected and threw another
\* error, and a callback of one of them was called again afterwards.
C20_Witness ==
    \E p, q \in Promises :
        /\ SettlesThenThrows(p) /\ origin[p].steps[1].op = "resolve"
        /\ SettlesThenThrows(q) /\ origin[q].steps[1].op = "reject"
        /\ origin[q].steps[2].val # origin[q].steps[1].val
        /\ Len(settleLog[p]) >= 2

---------------------------------------------------------------------------
\* p is MyPromise.resolve(x) for a value x that is no instance.
ResolvedPlain(p) ==
    /\ origin[p].kind = "resolve"
    /\ ~isPromise(origin[p].steps[1].val)

\* p is MyPromise.resolve(q) for an instance q.
ResolvedFrom(p, q) ==
    /\ origin[p].kind = "resolve"
    /\ origin[p].steps[1].val = Ref(q)

\* C17: for a value x that is no instance, MyPromise.resolve(x) is fulfilled
\* with x, and MyPromise.resolve(MyPromise.resolve(x)) is never rejected,
\* never holds an instance as its result, is fulfilled with x once it is
\* settled, and is settled once the host's queue is empty.
C17_ResolveTwiceSameOutcome ==
    \A q \in Promises :
        ResolvedPlain(q) =>
            /\ state[q] = FULFILLED
            /\ result[q] = origin[q].steps[1].val
            /\ \A p \in Promises :
                   ResolvedFrom(p, q) =>
                       /\ Settled(p) => state[p] = state[q] /\ result[p] = result[q]
                       /\ ~isPromise(result[p])
                       /\ microQueue = <<>> => Settled(p)

\* MyPromise.resolve was called on what MyPromise.resolve returned for a
\* number, and its task has run.
C17_Witness ==
    \E p, q \in Promises :
        /\ ResolvedPlain(q)
        /\ ResolvedFrom(p, q)
        /\ Settled(p)
        /\ result[p] = Num(1)

---------------------------------------------------------------------------
\* The calls of all, and what they see of their items.
AllCalls == {c \in DOMAIN aggregates : aggregates[c].kind = "all"}
ItemState(item) == IF isPromise(item) THEN state[item.v] ELSE FULFILLED
ItemValue(item) == IF isPromise(item) THEN result[item.v] ELSE item
Least(S) == CHOOSE i \in S : \A j \in S : i <= j

\* The places in the history ran where call c of all observed an item in
\* state st: where the arrow function it attached for st ran.
ObservedBy(c, st) ==
    {i \in DOMAIN ran :
        /\ ran[i].state = st
        /\ ran[i].executor.kind \in {"allOnfulfilled", "allOnrejected"}
        /\ ran[i].executor.env = c}

\* C11: for an array of n >= 1 items none of which is rejected, what all
\* returns is pending as long as fewer than n fulfilments were observed and
\* fulfilled from the n-th on; when fulfilled its result is an array of
\* length n whose entry i is the value of item i, in whatever order the
\* items were settled and observed; and it is fulfilled once all items are
\* fulfilled and the host's queue is empty.
C11_AllFulfilsInInputOrder ==
    \A c \in AllCalls :
        LET a == aggregates[c]
            seen == Cardinality(ObservedBy(c, FULFILLED))
        IN a.length >= 1 =>
           /\ seen = a.fulfilledLength
           /\ state[a.self] = FULFILLED =>
                 /\ seen = a.length
                 /\ result[a.self] = Arr(a.values)
                 /\ objects[a.values].items =
                        [i \in 1 .. a.length |-> ItemValue(a.items[i])]
           /\ (\A i \in 1 .. a.length : ItemState(a.items[i]) # REJECTED) =>
                 /\ seen < a.length => state[a.self] = PENDING
                 /\ seen = a.length => state[a.self] = FULFILLED
           /\ (/\ \A i \in 1 .. a.length : ItemState(a.items[i]) = FULFILLED
               /\ microQueue = <<>>) => state[a.self] = FULFILLED

\* all was called on two instances, the second was observed fulfilled before
\* the first, with another value, and what all returned is fulfilled.
C11_Witness ==
    \E c \in AllCalls :
        LET a == aggregates[c] IN
        /\ a.length = 2
        /\ state[a.self] = FULFILLED
        /\ isPromise(a.items[1]) /\ isPromise(a.items[2])
        /\ result[a.items[1].v] # result[a.items[2].v]
        /\ \E i, j \in ObservedBy(c, FULFILLED) :
               i < j /\ ran[i].executor.index = 2 /\ ran[j].executor.index = 1

\* C12: once a call of all has observed the rejection of an item, what it
\* returned is rejected with the reason of the item whose rejection it
\* observed first, whatever it observes afterwards; it is rejected only
\* then; and it is not fulfilled when an item is rejected.
C12_AllFirstRejectionWins ==
    \A c \in AllCalls :
        LET a == aggregates[c]
            rej == ObservedBy(c, REJECTED)
        IN /\ rej # {} =>
                 /\ state[a.self] = REJECTED
                 /\ result[a.self] = ItemValue(a.items[ran[Least(rej)].executor.index])
           /\ state[a.self] = REJECTED => rej # {}
           /\ (\E i \in 1 .. a.length : ItemState(a.items[i]) = REJECTED) =>
                 state[a.self] # FULFILLED

\* A call of all observed two rejections, the second with another reason
\* than the first.
C12_Witness ==
    \E c \in AllCalls :
        \E i, j \in ObservedBy(c, REJECTED) :
            /\ i < j
            /\ result[ran[i].owner] # result[ran[j].owner]

\* C13: what all returns for an empty array is fulfilled, and its result is
\* an empty array.
C13_AllOfNothingIsEmptyArray ==
    \A c \in AllCalls :
        aggregates[c].length = 0 =>
            /\ state[aggregates[c].self] = FULFILLED
            /\ result[aggregates[c].self].kind = "array"
            /\ objects[result[aggregates[c].self].v].items = <<>>

---------------------------------------------------------------------------
\* The calls of allSettled.
AllSettledCalls == {c \in DOMAIN aggregates : aggregates[c].kind = "allSettled"}

\* The object literal of lines 213 and 215 for an item in state st.
Descriptor(st, val) ==
    [kind |-> "descriptor", status |-> st,
     key |-> IF st = FULFILLED THEN "value" ELSE "reason", items |-> <<val>>]

\* What call c of allSettled returned is not rejected; when fulfilled, its
\* result is an array with one descriptor per item, in the order of the
\* items; and it is fulfilled once every item is settled and the host's queue
\* is empty.
DescribesEveryItem(c) ==
    LET a == aggregates[c] IN
    /\ state[a.self] # REJECTED
    /\ state[a.self] = FULFILLED =>
          /\ result[a.self].kind = "array"
          /\ LET d == objects[result[a.self].v].items IN
             /\ Len(d) = a.length
             /\ \A i \in 1 .. a.length :
                    /\ d[i].kind = "object"
                    /\ objects[d[i].v] =
                           Descriptor(ItemState(a.items[i]), ItemValue(a.items[i]))
    /\ (/\ \A i \in 1 .. a.length : ItemState(a.items[i]) # PENDING
        /\ microQueue = <<>>) => state[a.self] = FULFILLED

\* C14: for every array, whose items settle in any order, what allSettled
\* returns is never rejected and is in the end fulfilled with an array of
\* one descriptor per item in input order: status fulfilled and the value,
\* or status rejected and the reason.
C14_AllSettledDescribesEveryItem ==
    \A c \in AllSettledCalls : DescribesEveryItem(c)

\* The same for the arrays of at least one item.
AllSettledOfItemsDescribesEveryItem ==
    \A c \in AllSettledCalls : aggregates[c].length >= 1 => DescribesEveryItem(c)

\* allSettled of a rejected and of a fulfilled instance is fulfilled.
AllSettledOfItemsWitness ==
    \E c \in AllSettledCalls :
        LET a == aggregates[c] IN
        /\ a.length = 2
        /\ state[a.self] = FULFILLED
        /\ ItemState(a.items[1]) = REJECTED
        /\ ItemState(a.items[2]) = FULFILLED

---------------------------------------------------------------------------
\* The calls of race.
RaceCalls == {c \in DOMAIN aggregates : aggregates[c].kind = "race"}

\* C15: for an array of at least one item, what race returns is pending as
\* long as none of the instances MyPromise.resolve made for the items has
\* settled; once it is settled it has the state and the result of the one
\* of them that settled first, whatever settles later; and it is settled
\* once one of them has settled and the host's queue is empty.
C15_RaceFirstSettledWins ==
    \A c \in RaceCalls :
        LET a == aggregates[c] IN
        a.length >= 1 =>
            /\ a.first = 0 => state[a.self] = PENDING
            /\ Settled(a.self) =>
                  /\ a.first # 0
                  /\ state[a.self] = state[a.first]
                  /\ result[a.self] = result[a.first]
            /\ (a.first # 0 /\ microQueue = <<>>) => Settled(a.self)

\* race was called on two instances; the one made for the second item was
\* rejected first and the one made for the first item was fulfilled later,
\* and what race returned is settled.
C15_Witness ==
    \E c \in RaceCalls :
        LET a == aggregates[c] IN
        /\ a.length = 2
        /\ a.first = a.wrapped[2]
        /\ state[a.wrapped[2]] = REJECTED
        /\ state[a.wrapped[1]] = FULFILLED
        /\ Settled(a.self)

\* The task callback concerns instance p: it is a handler record of p, or of
\* a then call that returned p, or it carries a callback of p.
TaskOf(callback, p) ==
    \/ callback.this = p
    \/ callback.handler.resolve = p
    \/ callback.handler.reject = p
    \/ /\ callback.handler.executor.kind \in {"resolve", "reject"}
       /\ callback.handler.executor.val = Ref(p)

\* C16: what race returns for an empty array is pending in every state, no
\* task of the host's queue concerns it and no handler record that ran did.
C16_RaceOfNothingStaysPending ==
    \A c \in RaceCalls :
        LET a == aggregates[c] IN
        a.length = 0 =>
            /\ state[a.self] = PENDING
            /\ settleLog[a.self] = <<>>
            /\ a.wrapped = <<>>
            /\ \A i \in DOMAIN microQueue : ~TaskOf(microQueue[i], a.self)
            /\ \A i \in DOMAIN ran :
                   ~TaskOf([this |-> ran[i].owner,
                            handler |-> [resolve |-> ran[i].down, reject |-> ran[i].down,
                                         executor |-> ran[i].executor]], a.self)

\* race was called on the empty array, and afterwards an instance of the
\* script was settled.
C16_Witness ==
    \E c \in RaceCalls :
        /\ aggregates[c].length = 0
        /\ \E p \in Created : p > aggregates[c].self /\ Settled(p)

---------------------------------------------------------------------------
\* Sequence s is the beginning of sequence t.
IsPrefix(s, t) == Len(s) <= Len(t) /\ SubSeq(t, 1, Len(s)) = s

\* The last entry of the history ran' is the run of the handler record of
\* callback, and the entries before it are those of ran.
RanIs(callback) ==
    /\ Len(ran') = Len(ran) + 1
    /\ \A i \in DOMAIN ran :
           /\ ran'[i].owner = ran[i].owner
           /\ ran'[i].down = ran[i].down
    /\ ran'[Len(ran')].owner = callback.this
    /\ ran'[Len(ran')].down = callback.handler.resolve
    /\ ran'[Len(ran')].state = callback.handler.state
    /\ ran'[Len(ran')].executor = callback.handler.executor

\* C18: the handler tasks of all instances run in the order in which they
\* were handed to the host.  A step that runs no task runs no handler record
\* and only adds tasks behind those already queued; a step that runs a task
\* runs the oldest queued one, runs at most its handler record, and what it
\* schedules (a then of a settled instance called inside the task, the
\* records of an instance it settles) goes behind every task that was
\* already queued.
C18_TasksRunInSchedulingOrder ==
    [][\/ /\ ran' = ran
          /\ IsPrefix(microQueue, microQueue')
       \/ /\ microQueue # <<>>
          /\ IsPrefix(Tail(microQueue), microQueue')
          /\ ran' = ran \/ RanIs(Head(microQueue))]_vars

\* A continuation returned an instance that was already settled, so the
\* task running it attached the callbacks of its downstream instance with
\* then and their record was scheduled at once; another record, scheduled
\* before, ran after that task and before the record it scheduled.
C18_Witness ==
    \E i, j, k \in DOMAIN ran :
        /\ i < j /\ j < k
        /\ ran[i].executor.kind = "returns"
        /\ ran[i].executor.val = Ref(ran[k].owner)
        /\ ran[k].executor = ResolveOf(ran[i].down)
        /\ origin[ran[k].down].srcState # PENDING
        /\ ran[j].down # ran[k].down
        /\ ran[j].executor.kind = "returns"

---------------------------------------------------------------------------
\* d was returned by then on an instance that is settled, and the
\* continuation that matches is absent, returns a plain value or throws.
SettlesByItself(d) ==
    /\ d \in Promises
    /\ origin[d].kind = "then"
    /\ Settled(origin[d].src)
    /\ \/ Matching(d).kind \in {"absent", "throws"}
       \/ Matching(d).kind = "returns" /\ ~isPromise(Matching(d).val)

\* C19: under a host that runs every task it was given, no handler record
\* is ever in the queue of a settled instance, and every instance then
\* returned, before or after its source settled, is settled some time after
\* the source is, when the matching continuation is absent, returns a plain
\* value or throws.
C19_DownstreamEventuallySettles ==
    /\ [](\A p \in Promises : Settled(p) => handlerQueue[p] = <<>>)
    /\ \A d \in 1 .. MaxLivePromises :
           SettlesByItself(d) ~> (d \in Promises /\ Settled(d))

\* Of two instances then returned for one source, one attached while it was
\* pending and one after it had settled, both are settled.
C19_Witness ==
    \E d, e \in Promises :
        /\ SettlesByItself(d) /\ SettlesByItself(e)
        /\ origin[d].src = origin[e].src
        /\ origin[d].srcState = PENDING
        /\ origin[e].srcState # PENDING
        /\ Settled(d) /\ Settled(e)
=============================================================================
